---- MODULE Spec2Model ----
(***************************************************************************)
(* A model of robinhood-reports-convertor.                                 *)
(*                                                                         *)
(*   preprocess_csv_files.py      the report assembler: the overlap        *)
(*                                resolver get_non_overlap_dataframe, and  *)
(*                                save_first_result / save_reset_result    *)
(*                                driven by main over the grouping config  *)
(*   robinhood_reports_convertor.py  the per-instrument ledger:            *)
(*                                get_stock_and_option_dict, get_stock_dict*)
(*                                get_option_dict, save_stock_result and   *)
(*                                save_option_result                       *)
(*   utils/common_util.py         convert_accounting_string_to_float and   *)
(*                                load_dataframe_from_csv                  *)
(*                                                                         *)
(* A DataFrame is a sequence of rows.  Currency amounts are integers (a    *)
(* number of cents), so sums are exact.                                    *)
(***************************************************************************)
EXTENDS Integers, Sequences, FiniteSets, TLC

VARIABLES
    pc,            \* position of the running program
    first_df,      \* resolver: the older table A
    second_df,     \* resolver: the newer table B
    filtered_df,   \* resolver: the table get_non_overlap_dataframe returned
    log_record,    \* resolver: the message it logged
    csv_files,     \* assembler: the input files' rows, footer row included
    csv_config,    \* assembler: the grouping config, sorted by key
    part_done,     \* assembler: number of config parts main has processed
    last_df,       \* assembler: main's last_df: <<>> for None, else <<table>>
    output_csv,    \* assembler: the master CSV: whether it exists, its rows
    missing_files, \* assembler: the file names pd.read_csv cannot read
    string_value,  \* parser: the cell convert_accounting_string_to_float got
    float_value,   \* parser: what it returned, or the error it raised
    instrument_value,    \* ledger: the instrument of the group
    instrument_df,       \* ledger: the group's rows, in file order
    row_done,            \* ledger: rows get_stock_and_option_dict has consumed
    stock_data_dict,     \* ledger: key -> (quantity, amount), insertion-ordered
    option_data_dict,    \* ledger: the same for the option keys
    day_trade_dict,      \* ledger: date -> list of (trans code, sequence number)
    undefined_logged,    \* ledger: warnings logged for undefined trans codes
    key_done,            \* ledger: keys save_stock_result has consumed
    quantity_sum_value,  \* ledger: save_stock_result's running quantity
    amount_sum_value,    \* ledger: save_stock_result's running amount
    stock_data_list,     \* ledger: the STOCK rows built so far
    stock_sheet,         \* ledger: the rows of the STOCK sheet once written
    instrument_config_dict,  \* ledger: the loaded transaction classification
    option_key_done,     \* ledger: keys save_option_result has consumed
    position_data_dict,  \* ledger: leg -> running (quantity, amount)
    position_data_set,   \* ledger: the legs that await their record
    option_data_list,    \* ledger: the OPTION rows built so far
    option_sheet,        \* ledger: the rows of the OPTION sheet once written
    convertor_input_df,  \* convertor: main's input_df, all instruments
    groups_done          \* convertor: instrument groups main has started

resolver_vars == <<first_df, second_df, filtered_df, log_record>>
assembler_vars == <<csv_files, csv_config, part_done, last_df, output_csv,
                    missing_files>>
parser_vars == <<string_value, float_value>>
convert_vars == <<stock_data_dict, option_data_dict, day_trade_dict,
                  undefined_logged>>
save_stock_vars == <<key_done, quantity_sum_value, amount_sum_value,
                     stock_data_list, stock_sheet>>
save_option_vars == <<option_key_done, position_data_dict, position_data_set,
                      option_data_list, option_sheet>>
ledger_vars == <<instrument_config_dict, instrument_value, instrument_df,
                 row_done, convert_vars, save_stock_vars, save_option_vars>>

main_vars == <<convertor_input_df, groups_done>>

vars == <<pc, resolver_vars, assembler_vars, parser_vars, ledger_vars,
          main_vars>>

-----------------------------------------------------------------------------
(* Bounds of the model *)

\* rows per table when the resolver is checked on its own
MaxRows == 3
\* characters of a string handed to the accounting parser
MaxChars == 4
\* number of input files of an assembler run
MaxFiles == 3
\* data rows per input file of an assembler run
MaxFileRows == 2
\* the end-to-end scenario: rows per report and rows of the shared boundary
ReportRows == 5
OverlapRows == 2
\* rows of one instrument group in a ledger pass
MaxTx == 3

-----------------------------------------------------------------------------
(* Rows.  The four comparison fields are ranks in their column's sort      *)
(* order; Description stands for the columns sort_values is not given      *)
(* (the dates, Description, Trans Code).                                   *)

Row(instrument, amount, price, quantity, description) ==
    [Instrument |-> instrument, Amount |-> amount, Price |-> price,
     Quantity |-> quantity, Description |-> description]

RowP == Row(1, 1, 1, 1, "p")
RowQ == Row(1, 2, 1, 1, "p")
\* the comparison fields of RowP, another Description
RowR == Row(1, 1, 1, 1, "r")
\* above RowP by Quantity only, below RowQ by Amount
RowS == Row(1, 1, 1, 2, "p")

RowUniverse == {RowP, RowQ, RowR, RowS}
FileRowUniverse == {RowP, RowQ}
ScenarioRowUniverse == {RowP, RowQ, RowR}

\* the disclaimer line that ends every report
FooterRow == Row(0, 0, 0, 0, "footer")

\* the master CSV before it is written, and holding rows
NoFile == [exists |-> FALSE, rows |-> <<>>]
File(rows) == [exists |-> TRUE, rows |-> rows]

Tables(universe, n) == UNION {[1..k -> universe] : k \in 0..n}

Min(a, b) == IF a < b THEN a ELSE b
Max(a, b) == IF a > b THEN a ELSE b

-----------------------------------------------------------------------------
(* convert_accounting_string_to_float.  A string is the sequence of its    *)
(* characters; a float is an integer mantissa and the number of decimal    *)
(* places it counts, with no trailing zero decimals kept: 12.00 and 12 are *)
(* both (12, 0)                                                            *)

NullCell == [null |-> TRUE, text |-> <<>>]
Cell(text) == [null |-> FALSE, text |-> text]

NotReturned == [state |-> "none", mantissa |-> 0, places |-> 0]
ValueError == [state |-> "raised", mantissa |-> 0, places |-> 0]

RECURSIVE Float(_, _)
Float(mantissa, places) ==
    IF places > 0 /\ mantissa % 10 = 0
    THEN Float(mantissa \div 10, places - 1)
    ELSE [state |-> "returned", mantissa |-> mantissa, places |-> places]

Digits == {"0", "1", "2", "3", "4", "5", "6", "7", "8", "9"}

DigitValue(c) ==
    CASE c = "0" -> 0 [] c = "1" -> 1 [] c = "2" -> 2 [] c = "3" -> 3
      [] c = "4" -> 4 [] c = "5" -> 5 [] c = "6" -> 6 [] c = "7" -> 7
      [] c = "8" -> 8 [] c = "9" -> 9

\* the digits of a text read as one integer, the point passed over
RECURSIVE digits_value(_, _)
digits_value(text, read) ==
    IF text = <<>> THEN read
    ELSE IF text[1] = "." THEN digits_value(Tail(text), read)
    ELSE digits_value(Tail(text), 10 * read + DigitValue(text[1]))

\* float(text) for a text of digits, points and minus signs: an optional
\* sign, then digits with at most one point and at least one digit
float(text) ==
    LET negative == text # <<>> /\ text[1] = "-"
        body == IF negative THEN Tail(text) ELSE text
        points == {j \in 1..Len(body) : body[j] = "."}
        places == IF points = {} THEN 0
                  ELSE Len(body) - (CHOOSE j \in points : TRUE)
    IN  IF /\ \A j \in 1..Len(body) : body[j] \in Digits \cup {"."}
           /\ \E j \in 1..Len(body) : body[j] \in Digits
           /\ Cardinality(points) <= 1
        THEN Float((IF negative THEN -1 ELSE 1) * digits_value(body, 0),
                   places)
        ELSE ValueError

\* string_value.replace(old, '')
replace(text, old) == SelectSeq(text, LAMBDA c : c # old)

\* a slip: a value written in parentheses is returned negated
convert_accounting_string_to_float_negating(cell) ==
    IF cell.null THEN Float(0, 0)
    ELSE IF cell.text = <<>> THEN Float(0, 0)
    ELSE LET text ==
                 replace(replace(replace(replace(cell.text, "$"), "("),
                                 ")"), ",")
             parsed == float(text)
         IN  IF \E j \in 1..Len(cell.text) : cell.text[j] = "("
             THEN [parsed EXCEPT !.mantissa = 0 - @]
             ELSE parsed

convert_accounting_string_to_float(cell) ==
    IF cell.null THEN Float(0, 0)
    ELSE IF cell.text = <<>> THEN Float(0, 0)
    ELSE float(replace(replace(replace(replace(cell.text, "$"), "("), ")"),
                       ","))

-----------------------------------------------------------------------------
(* pandas operations used by get_non_overlap_dataframe *)

\* by=['Instrument', 'Amount', 'Price', 'Quantity'], ascending
KeyLess(r, s) ==
    \/ r.Instrument < s.Instrument
    \/ /\ r.Instrument = s.Instrument
       /\ \/ r.Amount < s.Amount
          \/ /\ r.Amount = s.Amount
             /\ \/ r.Price < s.Price
                \/ /\ r.Price = s.Price
                   /\ r.Quantity < s.Quantity

\* r goes after every row whose key is not above its own: rows with equal
\* keys keep their order (the multi-column sort is a stable lexsort)
InsertSorted(sorted, r) ==
    LET k == Cardinality({j \in 1..Len(sorted) : ~KeyLess(r, sorted[j])})
    IN  SubSeq(sorted, 1, k) \o <<r>> \o SubSeq(sorted, k + 1, Len(sorted))

RECURSIVE sort_values(_)
sort_values(df) ==
    IF df = <<>> THEN <<>>
    ELSE InsertSorted(sort_values(SubSeq(df, 1, Len(df) - 1)), df[Len(df)])

\* first_df.iloc[-i:len(first_df)]: the last i rows, all of them when i > len
iloc_tail(df, i) == SubSeq(df, Max(Len(df) - i, 0) + 1, Len(df))

\* second_df.iloc[0:i]
iloc_head(df, i) == SubSeq(df, 1, Min(i, Len(df)))

\* second_df.drop(second_df.index[0:i])
drop_head(df, i) == SubSeq(df, Min(i, Len(df)) + 1, Len(df))

\* a slip: the window of B is cut down to the rows the window of A has
windows_equal_common_rows(A, B, i) ==
    sort_values(iloc_tail(A, i))
        = sort_values(iloc_head(B, Len(iloc_tail(A, i))))

\* temp_first_df.equals(temp_second_df) for the windows of length i
windows_equal(A, B, i) ==
    sort_values(iloc_tail(A, i)) = sort_values(iloc_head(B, i))

-----------------------------------------------------------------------------
(* get_non_overlap_dataframe *)

\* nothing logged yet
NoLog == [level |-> "", found |-> FALSE, rows |-> 0]
Found(i) == [level |-> "warning", found |-> TRUE, rows |-> i]
NotFound == [level |-> "info", found |-> FALSE, rows |-> 0]

\* a slip: after the loop the function drops what the last window covered
RECURSIVE scan_overlap_drop_after_loop(_, _, _)
scan_overlap_drop_after_loop(A, B, i) ==
    IF i > Len(B) THEN [df |-> drop_head(B, Len(B)), log |-> NotFound]
    ELSE IF windows_equal(A, B, i)
         THEN [df |-> drop_head(B, i), log |-> Found(i)]
         ELSE scan_overlap_drop_after_loop(A, B, i + 1)

\* the for loop from i on: range(i, len(second_df) + 1)
RECURSIVE scan_overlap(_, _, _)
scan_overlap(A, B, i) ==
    IF i > Len(B) THEN [df |-> B, log |-> NotFound]
    ELSE IF windows_equal(A, B, i)
         THEN [df |-> drop_head(B, i), log |-> Found(i)]
         ELSE scan_overlap(A, B, i + 1)

\* a slip: the scan runs from len(second_df) down, so the largest match wins
RECURSIVE scan_overlap_down(_, _, _)
scan_overlap_down(A, B, i) ==
    IF i < 1 THEN [df |-> B, log |-> NotFound]
    ELSE IF windows_equal(A, B, i)
         THEN [df |-> drop_head(B, i), log |-> Found(i)]
         ELSE scan_overlap_down(A, B, i - 1)

get_non_overlap_dataframe_largest(A, B) == scan_overlap_down(A, B, Len(B))

\* a slip: range(0, len(second_df) + 1), whose first windows are both empty
get_non_overlap_dataframe_from_zero(A, B) == scan_overlap(A, B, 0)

get_non_overlap_dataframe(A, B) == scan_overlap(A, B, 1)

-----------------------------------------------------------------------------
(* save_first_result, save_reset_result *)

\* a slip: each table is resolved against the accumulated output_df
RECURSIVE concat_pairs_against_output(_, _, _)
concat_pairs_against_output(input_df_list, k, output_df) ==
    IF k > Len(input_df_list) - 1 THEN output_df
    ELSE concat_pairs_against_output(
             input_df_list, k + 1,
             output_df \o get_non_overlap_dataframe(
                              output_df, input_df_list[k + 1]).df)

\* the loop over zip(input_df_list[:-1], input_df_list[1:]) from pair k on
RECURSIVE concat_pairs(_, _, _)
concat_pairs(input_df_list, k, output_df) ==
    IF k > Len(input_df_list) - 1 THEN output_df
    ELSE concat_pairs(
             input_df_list, k + 1,
             output_df \o get_non_overlap_dataframe(
                              input_df_list[k], input_df_list[k + 1]).df)

\* what save_first_result writes: to_csv(output_csv_filepath)
save_first_result(input_df_list) ==
    concat_pairs(input_df_list, 1, input_df_list[1])

\* a slip: output_df starts from input_df_list[0], as in save_first_result
save_reset_result_from_first(input_df_list) ==
    concat_pairs(input_df_list, 1, input_df_list[1])

\* what save_reset_result appends: to_csv(..., mode='a', header=False)
save_reset_result(input_df_list) ==
    concat_pairs(input_df_list, 1, <<>>)

-----------------------------------------------------------------------------
(* main of preprocess_csv_files.py *)

\* a slip: a file that cannot be read is taken for one without data rows
load_dataframe_from_csv_skips(files, missing, name) ==
    IF name \in missing
    THEN [exit |-> FALSE, rows |-> <<FooterRow>>]
    ELSE [exit |-> FALSE, rows |-> files[name]]

\* the rows pd.read_csv returns, or sys.exit(1) from the except branch
load_dataframe_from_csv(files, missing, name) ==
    IF name \in missing
    THEN [exit |-> TRUE, rows |-> <<>>]
    ELSE [exit |-> FALSE, rows |-> files[name]]

\* load_dataframe_from_csv, then input_df.drop(input_df.index[-1]); the
\* Quantity cells are the integers convert_col_type_for_dataframe leaves
load_input_df(name) ==
    LET input_df ==
            load_dataframe_from_csv(csv_files, missing_files, name).rows
    IN  SubSeq(input_df, 1, Len(input_df) - 1)

\* the inner loop: one table per file name of the part, after the seed
load_part(seed, value) ==
    seed \o [k \in 1..Len(value) |-> load_input_df(value[k])]

\* the inner loop reaches a file whose load ends the process
part_exits(value) ==
    \E k \in 1..Len(value) :
        load_dataframe_from_csv(csv_files, missing_files, value[k]).exit

\* one iteration of "for key, value in csv_config_dict.items()"
MainPart ==
    /\ pc = "main"
    /\ part_done < Len(csv_config)
    /\ LET value == csv_config[part_done + 1]
           \* [] if last_df is None else [last_df]
           input_df_list == load_part(last_df, value)
       IN  IF part_exits(value)
           THEN /\ pc' = "exit_1"
                /\ UNCHANGED <<last_df, output_csv, part_done>>
           ELSE /\ last_df' = <<input_df_list[Len(input_df_list)]>>
                /\ output_csv' =
                       IF output_csv.exists
                       THEN File(output_csv.rows
                                     \o save_reset_result(input_df_list))
                       ELSE File(save_first_result(input_df_list))
                /\ part_done' = part_done + 1
                /\ pc' = pc
    /\ UNCHANGED <<csv_files, csv_config, missing_files, resolver_vars,
                   parser_vars, ledger_vars, main_vars>>

\* the loop is over: the closing log lines
MainFinish ==
    /\ pc = "main"
    /\ part_done = Len(csv_config)
    /\ pc' = "done"
    /\ UNCHANGED <<assembler_vars, resolver_vars, parser_vars, ledger_vars,
                   main_vars>>

\* the file list 1..n cut into consecutive non-empty parts after each cut
RECURSIVE split_parts(_, _, _)
split_parts(lo, n, cuts) ==
    IF lo > n THEN <<>>
    ELSE LET e == CHOOSE c \in (cuts \cup {n}) :
                      /\ c >= lo
                      /\ \A d \in (cuts \cup {n}) : d >= lo => c <= d
         IN  <<[k \in 1..(e - lo + 1) |-> lo + k - 1]>>
                 \o split_parts(e + 1, n, cuts)

WithFooter(t) == t \o <<FooterRow>>

ParserIdle ==
    /\ string_value = NullCell
    /\ float_value = NotReturned

ResolverIdle ==
    /\ first_df = <<>>
    /\ second_df = <<>>
    /\ filtered_df = <<>>
    /\ log_record = NoLog

SaveOptionIdle ==
    /\ option_key_done = 0
    /\ position_data_dict = <<>>
    /\ position_data_set = {}
    /\ option_data_list = <<>>
    /\ option_sheet = <<>>

MainIdle ==
    /\ convertor_input_df = <<>>
    /\ groups_done = 0

LedgerIdle ==
    /\ MainIdle
    /\ instrument_config_dict = [stock |-> <<>>, option |-> <<>>]
    /\ SaveOptionIdle
    /\ instrument_value = ""
    /\ instrument_df = <<>>
    /\ row_done = 0
    /\ stock_data_dict = <<>>
    /\ option_data_dict = <<>>
    /\ day_trade_dict = <<>>
    /\ undefined_logged = 0
    /\ key_done = 0
    /\ quantity_sum_value = 0
    /\ amount_sum_value = 0
    /\ stock_data_list = <<>>
    /\ stock_sheet = <<>>

Init ==
    /\ pc = "main"
    /\ \E n \in 1..MaxFiles :
         /\ csv_files \in
                [1..n -> {WithFooter(t) : t \in Tables(FileRowUniverse, MaxFileRows)}]
         /\ \E cuts \in SUBSET (1..(n - 1)) :
                csv_config = split_parts(1, n, cuts)
    /\ part_done = 0
    /\ last_df = <<>>
    /\ output_csv = NoFile
    /\ missing_files = {}
    /\ ResolverIdle
    /\ ParserIdle
    /\ LedgerIdle

Next == MainPart \/ MainFinish

Spec == Init /\ [][Next]_vars

\* A run in which any of the configured files may be missing from the data
\* directory; a missing file has no rows to speak of
InitMissing ==
    /\ pc = "main"
    /\ \E n \in 1..MaxFiles :
         /\ missing_files \in SUBSET (1..n)
         /\ csv_files \in
                [1..n -> {WithFooter(t) : t \in Tables(FileRowUniverse, MaxFileRows)}
                             \cup {<<>>}]
         /\ \A name \in 1..n : name \in missing_files <=> csv_files[name] = <<>>
         /\ \E cuts \in SUBSET (1..(n - 1)) :
                csv_config = split_parts(1, n, cuts)
    /\ part_done = 0
    /\ last_df = <<>>
    /\ output_csv = NoFile
    /\ ResolverIdle
    /\ ParserIdle
    /\ LedgerIdle

SpecMissing == InitMissing /\ [][Next]_vars

\* The end-to-end scenario: two reports of ReportRows rows in one part, the
\* last OverlapRows rows of the first equal, once sorted, to the first
\* OverlapRows rows of the second
InitEndToEnd ==
    /\ pc = "main"
    /\ \E A, B \in [1..ReportRows -> ScenarioRowUniverse] :
         /\ windows_equal(A, B, OverlapRows)
         /\ csv_files = <<WithFooter(A), WithFooter(B)>>
    /\ csv_config = <<(<<1, 2>>)>>
    /\ part_done = 0
    /\ last_df = <<>>
    /\ output_csv = NoFile
    /\ missing_files = {}
    /\ ResolverIdle
    /\ ParserIdle
    /\ LedgerIdle

SpecEndToEnd == InitEndToEnd /\ [][Next]_vars

-----------------------------------------------------------------------------
(* The overlap resolver on its own: any older table A and newer table B *)

AssemblerIdle ==
    /\ csv_files = <<>>
    /\ csv_config = <<>>
    /\ part_done = 0
    /\ last_df = <<>>
    /\ output_csv = NoFile
    /\ missing_files = {}

InitResolver ==
    /\ pc = "call"
    /\ first_df \in Tables(RowUniverse, MaxRows)
    /\ second_df \in Tables(RowUniverse, MaxRows)
    /\ filtered_df = <<>>
    /\ log_record = NoLog
    /\ AssemblerIdle
    /\ LedgerIdle
    /\ ParserIdle

Resolve ==
    /\ pc = "call"
    /\ LET r == get_non_overlap_dataframe(first_df, second_df)
       IN  /\ filtered_df' = r.df
           /\ log_record' = r.log
    /\ pc' = "returned"
    /\ UNCHANGED <<first_df, second_df, assembler_vars, parser_vars,
                   ledger_vars, main_vars>>

NextResolver == Resolve

SpecResolver == InitResolver /\ [][NextResolver]_vars

-----------------------------------------------------------------------------
(* The accounting parser on its own: a null cell, any string of up to      *)
(* MaxChars characters, and two amounts as the reports print them          *)

Chars == {"$", "(", ")", ",", "-", ".", "0", "1", "2"}

Texts == UNION {[1..n -> Chars] : n \in 0..MaxChars}

ParenthesizedAmount == <<"(", "$", "1", "2", ".", "0", "0", ")">>
ThousandsAmount == <<"$", "1", ",", "2", "3", "4", ".", "5", "6">>

InitParser ==
    /\ pc = "parse"
    /\ string_value \in
           {NullCell}
               \cup {Cell(t) : t \in Texts
                                  \cup {ParenthesizedAmount, ThousandsAmount}}
    /\ float_value = NotReturned
    /\ ResolverIdle
    /\ AssemblerIdle
    /\ LedgerIdle

Parse ==
    /\ pc = "parse"
    /\ float_value' = convert_accounting_string_to_float(string_value)
    /\ pc' = "parsed"
    /\ UNCHANGED <<string_value, resolver_vars, assembler_vars, ledger_vars,
                   main_vars>>

NextParser == Parse

SpecParser == InitParser /\ [][NextParser]_vars

-----------------------------------------------------------------------------
(* The transaction classification config: code -> (behavior class, sign    *)
(* factor) for the stock and the option codes                              *)

\* Buy adds the quantity and subtracts the amount, Sell does the reverse,
\* AFEE subtracts the amount and keeps no quantity
stock_transcode_config ==
    ("Buy" :> <<0, 1>>) @@ ("Sell" :> <<0, -1>>) @@ ("AFEE" :> <<2, -1>>)

-----------------------------------------------------------------------------
(* The insertion-ordered defaultdict(lambda: (0, 0.0)): a sequence of      *)
(* entries, one per key, in the order the keys were first stored           *)

dict_has(d, key) == \E j \in 1..Len(d) : d[j].key = key

\* d[key], the default for a key not stored yet
dict_get(d, key) ==
    IF dict_has(d, key)
    THEN d[CHOOSE j \in 1..Len(d) : d[j].key = key].value
    ELSE <<0, 0>>

\* a slip: a key that is stored again moves to the end
dict_set_moves_to_end(d, key, value) ==
    Append(SelectSeq(d, LAMBDA e : e.key # key),
           [key |-> key, value |-> value])

\* d[key] = value: a stored key keeps its place, a new one goes last
dict_set(d, key, value) ==
    IF dict_has(d, key)
    THEN [j \in 1..Len(d) |->
              IF d[j].key = key THEN [key |-> key, value |-> value] ELSE d[j]]
    ELSE Append(d, [key |-> key, value |-> value])

-----------------------------------------------------------------------------
(* get_stock_dict, get_option_dict *)

\* a slip: the class-0 branch stores the row's own values over the old ones
get_stock_dict_overwrite(config, data_dict, date_value, transcode_value, quantity_value, price_value, amount_value, day_trade_value) ==
    LET factor_value == config.stock[transcode_value][2]
        key_value ==
            <<date_value, transcode_value, price_value, day_trade_value>>
    IN  <<key_value, factor_value * quantity_value,
          0 - factor_value * amount_value>>

\* a slip: the class-0 branch adds factor * amount instead of subtracting it
get_stock_dict_amount_added(config, data_dict, date_value, transcode_value, quantity_value, price_value, amount_value, day_trade_value) ==
    LET factor_value == config.stock[transcode_value][2]
        key_value ==
            <<date_value, transcode_value, price_value, day_trade_value>>
        old == dict_get(data_dict, key_value)
    IN  <<key_value, old[1] + factor_value * quantity_value,
          old[2] + factor_value * amount_value>>

\* a slip: the class-1 branch adds factor * quantity whatever the key holds
get_stock_dict_class_one_adds(config, data_dict, date_value, transcode_value, quantity_value, price_value, amount_value, day_trade_value) ==
    LET factor_value == config.stock[transcode_value][2]
        key_value ==
            <<date_value, transcode_value, price_value, day_trade_value>>
        old == dict_get(data_dict, key_value)
    IN  IF config.stock[transcode_value][1] = 1
        THEN <<key_value, old[1] + factor_value * quantity_value, 0>>
        ELSE IF config.stock[transcode_value][1] = 2
        THEN <<key_value, 0, old[2] + factor_value * amount_value>>
        ELSE <<key_value, old[1] + factor_value * quantity_value,
               old[2] - factor_value * amount_value>>

get_stock_dict(config, data_dict, date_value, transcode_value, quantity_value, price_value, amount_value, day_trade_value) ==
    LET factor_value == config.stock[transcode_value][2]
        key_value ==
            <<date_value, transcode_value, price_value, day_trade_value>>
        old == dict_get(data_dict, key_value)
    IN  IF config.stock[transcode_value][1] = 1
        THEN IF old[1] = 0
             THEN <<key_value, old[1] + factor_value * quantity_value, 0>>
             ELSE <<key_value, old[1] - factor_value * quantity_value, 0>>
        ELSE IF config.stock[transcode_value][1] = 2
        THEN <<key_value, 0, old[2] + factor_value * amount_value>>
        ELSE <<key_value, old[1] + factor_value * quantity_value,
               old[2] - factor_value * amount_value>>

\* a slip: the amount is kept for the codes of every class
get_option_dict_amount_tracked(config, data_dict, date_value, description_value, transcode_value, quantity_value, price_value, amount_value) ==
    LET factor_value == config.option[transcode_value][2]
        key_value ==
            <<date_value, transcode_value, price_value, description_value>>
        old == dict_get(data_dict, key_value)
    IN  <<key_value, old[1] + factor_value * quantity_value,
          old[2] - factor_value * amount_value>>

get_option_dict(config, data_dict, date_value, description_value, transcode_value, quantity_value, price_value, amount_value) ==
    LET factor_value == config.option[transcode_value][2]
        key_value ==
            <<date_value, transcode_value, price_value, description_value>>
        old == dict_get(data_dict, key_value)
    IN  IF config.option[transcode_value][1] \in {1, 2, 3}
        THEN <<key_value, old[1] + factor_value * quantity_value, 0>>
        ELSE <<key_value, old[1] + factor_value * quantity_value,
               old[2] - factor_value * amount_value>>

-----------------------------------------------------------------------------
(* get_stock_and_option_dict: one row of the group per step *)

\* re.split(rf'(?={instrument_value}\d*)', row[4])[-1].strip(): the words of
\* the description from the last one that starts with the ticker
leg_description(ticker, description) ==
    LET at == {j \in 1..Len(description) : description[j] = ticker}
    IN  IF at = {} THEN description
        ELSE SubSeq(description,
                    CHOOSE j \in at : \A h \in at : h <= j,
                    Len(description))

\* a slip: every stock row of a date takes the next number, whatever its code
day_trade_update_every_row(day_trade, date_value, transcode_value) ==
    IF date_value \in DOMAIN day_trade
    THEN LET entries == day_trade[date_value]
             last == entries[Len(entries)]
         IN  [day_trade EXCEPT
                  ![date_value] =
                      Append(entries, <<transcode_value, last[2] + 1>>)]
    ELSE day_trade @@ (date_value :> << <<transcode_value, 1>> >>)

\* the day-trade counter of the row's date after a stock row of this code
day_trade_update(day_trade, date_value, transcode_value) ==
    IF date_value \in DOMAIN day_trade
    THEN LET entries == day_trade[date_value]
             last == entries[Len(entries)]
         IN  IF transcode_value # last[1]
             THEN [day_trade EXCEPT
                       ![date_value] =
                           Append(entries, <<transcode_value, last[2] + 1>>)]
             ELSE day_trade
    ELSE day_trade @@ (date_value :> << <<transcode_value, 1>> >>)

\* a slip: the day-trade counter also counts a row of an undefined code
get_stock_and_option_row_counts_undefined(config, ticker, row, stock_dict, option_dict, day_trade, undefined) ==
    LET date_value == row.ActivityDate
        description_value == leg_description(ticker, row.Description)
        transcode_value == row.TransCode
        quantity_value == row.Quantity
        price_value == row.Price
        amount_value == row.Amount
        counted == day_trade_update(day_trade, date_value, transcode_value)
        entries == counted[date_value]
    IN  IF transcode_value \in DOMAIN config.stock
        THEN LET got == get_stock_dict(
                            config, stock_dict, date_value, transcode_value,
                            quantity_value, price_value, amount_value,
                            entries[Len(entries)][2])
             IN  [stock_data_dict |->
                      dict_set(stock_dict, got[1], <<got[2], got[3]>>),
                  option_data_dict |-> option_dict,
                  day_trade_dict |-> counted,
                  undefined_logged |-> undefined]
        ELSE IF transcode_value \in DOMAIN config.option
        THEN LET got == get_option_dict(
                            config, option_dict, date_value,
                            description_value, transcode_value,
                            quantity_value, price_value, amount_value)
             IN  [stock_data_dict |-> stock_dict,
                  option_data_dict |->
                      dict_set(option_dict, got[1], <<got[2], got[3]>>),
                  day_trade_dict |-> day_trade,
                  undefined_logged |-> undefined]
        ELSE [stock_data_dict |-> stock_dict,
              option_data_dict |-> option_dict,
              day_trade_dict |-> counted,
              undefined_logged |-> undefined + 1]

get_stock_and_option_row(config, ticker, row, stock_dict, option_dict, day_trade, undefined) ==
    LET date_value == row.ActivityDate
        description_value == leg_description(ticker, row.Description)
        transcode_value == row.TransCode
        quantity_value == row.Quantity
        price_value == row.Price
        amount_value == row.Amount
    IN  IF transcode_value \in DOMAIN config.stock
        THEN LET counted ==
                     day_trade_update(day_trade, date_value, transcode_value)
                 entries == counted[date_value]
                 got == get_stock_dict(
                            config, stock_dict, date_value, transcode_value,
                            quantity_value, price_value, amount_value,
                            entries[Len(entries)][2])
             IN  [stock_data_dict |->
                      dict_set(stock_dict, got[1], <<got[2], got[3]>>),
                  option_data_dict |-> option_dict,
                  day_trade_dict |-> counted,
                  undefined_logged |-> undefined]
        ELSE IF transcode_value \in DOMAIN config.option
        THEN LET got == get_option_dict(
                            config, option_dict, date_value,
                            description_value, transcode_value,
                            quantity_value, price_value, amount_value)
             IN  [stock_data_dict |-> stock_dict,
                  option_data_dict |->
                      dict_set(option_dict, got[1], <<got[2], got[3]>>),
                  day_trade_dict |-> day_trade,
                  undefined_logged |-> undefined]
        ELSE [stock_data_dict |-> stock_dict,
              option_data_dict |-> option_dict,
              day_trade_dict |-> day_trade,
              undefined_logged |-> undefined + 1]

ConvertRow ==
    /\ pc = "convert"
    /\ row_done < Len(instrument_df)
    /\ LET got == get_stock_and_option_row(
                      instrument_config_dict, instrument_value,
                      instrument_df[row_done + 1], stock_data_dict,
                      option_data_dict, day_trade_dict, undefined_logged)
       IN  /\ stock_data_dict' = got.stock_data_dict
           /\ option_data_dict' = got.option_data_dict
           /\ day_trade_dict' = got.day_trade_dict
           /\ undefined_logged' = got.undefined_logged
    /\ row_done' = row_done + 1
    /\ pc' = IF row_done + 1 = Len(instrument_df)
             THEN "save_stock" ELSE "convert"
    /\ UNCHANGED <<instrument_config_dict, instrument_value, instrument_df,
                   save_stock_vars, save_option_vars, resolver_vars,
                   assembler_vars, parser_vars, main_vars>>

-----------------------------------------------------------------------------
(* save_stock_result: one key of reversed(stock_data_dict.items()) per step *)

\* the Profit cell: empty for None
NoProfit == <<>>
Profit(value) == <<value>>

StockRow(date_value, type_value, quantity, price, amount, profit) ==
    [Date |-> date_value, Type |-> type_value, Quantity |-> quantity,
     Price |-> price, Amount |-> amount, Profit |-> profit]

\* a slip: every row of a class other than 2 is given the running amount
\* as its Profit, closing or not
save_stock_entry_profit_always(config, entry, quantity_sum, amount_sum) ==
    LET date_value == entry.key[1]
        transcode_value == entry.key[2]
        price_value == entry.key[3]
        quantity_value == entry.value[1]
        amount_value == entry.value[2]
    IN  IF config.stock[transcode_value][1] = 2
        THEN [row |-> StockRow(date_value, transcode_value, 0, 0,
                               amount_value, Profit(amount_value)),
              quantity_sum |-> quantity_sum,
              amount_sum |-> amount_sum]
        ELSE [row |-> StockRow(date_value, transcode_value, quantity_value,
                               price_value, amount_value,
                               Profit(amount_sum + amount_value)),
              quantity_sum |-> quantity_sum + quantity_value,
              amount_sum |-> amount_sum + amount_value]

\* a slip: the running amount is not set back to 0 after a closing row
save_stock_entry_no_reset(config, entry, quantity_sum, amount_sum) ==
    LET date_value == entry.key[1]
        transcode_value == entry.key[2]
        price_value == entry.key[3]
        quantity_value == entry.value[1]
        amount_value == entry.value[2]
    IN  IF config.stock[transcode_value][1] = 2
        THEN [row |-> StockRow(date_value, transcode_value, 0, 0,
                               amount_value, Profit(amount_value)),
              quantity_sum |-> quantity_sum,
              amount_sum |-> amount_sum]
        ELSE [row |-> StockRow(date_value, transcode_value, quantity_value,
                               price_value, amount_value,
                               IF quantity_sum + quantity_value # 0
                               THEN NoProfit
                               ELSE Profit(amount_sum + amount_value)),
              quantity_sum |-> quantity_sum + quantity_value,
              amount_sum |-> amount_sum + amount_value]

\* a slip: a class-2 key is added to the running sums like any other
save_stock_entry_class_two_counted(config, entry, quantity_sum, amount_sum) ==
    LET date_value == entry.key[1]
        transcode_value == entry.key[2]
        price_value == entry.key[3]
        quantity_value == entry.value[1]
        amount_value == entry.value[2]
    IN  IF config.stock[transcode_value][1] = 2
        THEN [row |-> StockRow(date_value, transcode_value, 0, 0,
                               amount_value, Profit(amount_value)),
              quantity_sum |-> quantity_sum + quantity_value,
              amount_sum |-> amount_sum + amount_value]
        ELSE IF quantity_sum + quantity_value # 0
        THEN [row |-> StockRow(date_value, transcode_value, quantity_value,
                               price_value, amount_value, NoProfit),
              quantity_sum |-> quantity_sum + quantity_value,
              amount_sum |-> amount_sum + amount_value]
        ELSE [row |-> StockRow(date_value, transcode_value, quantity_value,
                               price_value, amount_value,
                               Profit(amount_sum + amount_value)),
              quantity_sum |-> quantity_sum + quantity_value,
              amount_sum |-> 0]

\* the loop body for one entry: the row appended and the running sums after
save_stock_entry(config, entry, quantity_sum, amount_sum) ==
    LET date_value == entry.key[1]
        transcode_value == entry.key[2]
        price_value == entry.key[3]
        quantity_value == entry.value[1]
        amount_value == entry.value[2]
    IN  IF config.stock[transcode_value][1] = 2
        THEN [row |-> StockRow(date_value, transcode_value, 0, 0,
                               amount_value, Profit(amount_value)),
              quantity_sum |-> quantity_sum,
              amount_sum |-> amount_sum]
        ELSE IF quantity_sum + quantity_value # 0
        THEN [row |-> StockRow(date_value, transcode_value, quantity_value,
                               price_value, amount_value, NoProfit),
              quantity_sum |-> quantity_sum + quantity_value,
              amount_sum |-> amount_sum + amount_value]
        ELSE [row |-> StockRow(date_value, transcode_value, quantity_value,
                               price_value, amount_value,
                               Profit(amount_sum + amount_value)),
              quantity_sum |-> quantity_sum + quantity_value,
              amount_sum |-> 0]

SaveStockRow ==
    /\ pc = "save_stock"
    /\ key_done < Len(stock_data_dict)
    /\ LET entry == stock_data_dict[Len(stock_data_dict) - key_done]
           step == save_stock_entry(instrument_config_dict, entry,
                                    quantity_sum_value, amount_sum_value)
       IN  /\ stock_data_list' = Append(stock_data_list, step.row)
           /\ quantity_sum_value' = step.quantity_sum
           /\ amount_sum_value' = step.amount_sum
    /\ key_done' = key_done + 1
    /\ UNCHANGED <<pc, stock_sheet, instrument_config_dict, instrument_value,
                   instrument_df, row_done, convert_vars, save_option_vars,
                   resolver_vars, assembler_vars, parser_vars, main_vars>>

\* stock_df.to_excel(writer, sheet_name='STOCK')
SaveStockWrite ==
    /\ pc = "save_stock"
    /\ key_done = Len(stock_data_dict)
    /\ stock_sheet' = stock_data_list
    /\ pc' = "stock_saved"
    /\ UNCHANGED <<key_done, quantity_sum_value, amount_sum_value,
                   stock_data_list, instrument_config_dict, instrument_value,
                   instrument_df, row_done, convert_vars, save_option_vars,
                   resolver_vars, assembler_vars, parser_vars, main_vars>>

-----------------------------------------------------------------------------
(* save_option_result: one key of reversed(option_data_dict.items()) per   *)
(* step                                                                    *)

calculate_quantity_value_from_balance(config, position_dict, transcode_value, description_value, quantity_value, balance_quantity_value) ==
    IF /\ config.option[transcode_value][1] \in {1, 3}
       /\ dict_get(position_dict, description_value)[1] > 0
    THEN balance_quantity_value - quantity_value
    ELSE balance_quantity_value + quantity_value

\* a slip: the two pairs of codes are the wrong way round
calculate_quantity_value_from_record_swapped(transcode_value, quantity_value, record_quantity_value) ==
    IF transcode_value \in {"BTC", "STO"}
    THEN quantity_value + record_quantity_value
    ELSE IF transcode_value \in {"BTO", "STC"}
    THEN quantity_value - record_quantity_value
    ELSE 0

calculate_quantity_value_from_record(transcode_value, quantity_value, record_quantity_value) ==
    IF transcode_value \in {"BTO", "STC"}
    THEN quantity_value + record_quantity_value
    ELSE IF transcode_value \in {"BTC", "STO"}
    THEN quantity_value - record_quantity_value
    ELSE 0

OptionRow(date_value, description_value, type_value, quantity, price, amount, profit) ==
    [Date |-> date_value, Description |-> description_value,
     Type |-> type_value, Quantity |-> quantity, Price |-> price,
     Amount |-> amount, Profit |-> profit]

\* a slip: a closing row sets the leg's quantity back but keeps its amount
save_option_entry_amount_kept(config, entry, position_dict, position_set) ==
    LET date_value == entry.key[1]
        transcode_value == entry.key[2]
        price_value == entry.key[3]
        description_value == entry.key[4]
        quantity_value == entry.value[1]
        amount_value == entry.value[2]
        old == dict_get(position_dict, description_value)
        awaiting == description_value \in position_set
        position ==
            IF awaiting
            THEN <<calculate_quantity_value_from_record(
                       transcode_value, quantity_value, old[1]),
                   amount_value>>
            ELSE <<calculate_quantity_value_from_balance(
                       config, position_dict, transcode_value,
                       description_value, quantity_value, old[1]),
                   old[2] + amount_value>>
        marked ==
            IF awaiting
            THEN position_set \ {description_value}
            ELSE IF /\ config.option[transcode_value][1] = 3
                    /\ ~dict_has(position_dict, description_value)
            THEN position_set \cup {description_value}
            ELSE position_set
    IN  [row |-> OptionRow(date_value, description_value, transcode_value,
                           quantity_value, price_value, amount_value,
                           IF position[1] # 0 THEN NoProfit
                           ELSE Profit(position[2])),
         position_dict |->
             dict_set(position_dict, description_value, position),
         position_set |-> marked]

\* a slip: a leg that holds nothing, and not only a leg never seen, is
\* marked by a class-3 code
save_option_entry_marks_flat(config, entry, position_dict, position_set) ==
    LET date_value == entry.key[1]
        transcode_value == entry.key[2]
        price_value == entry.key[3]
        description_value == entry.key[4]
        quantity_value == entry.value[1]
        amount_value == entry.value[2]
        old == dict_get(position_dict, description_value)
        awaiting == description_value \in position_set
        position ==
            IF awaiting
            THEN <<calculate_quantity_value_from_record(
                       transcode_value, quantity_value, old[1]),
                   amount_value>>
            ELSE <<calculate_quantity_value_from_balance(
                       config, position_dict, transcode_value,
                       description_value, quantity_value, old[1]),
                   old[2] + amount_value>>
        marked ==
            IF awaiting
            THEN position_set \ {description_value}
            ELSE IF /\ config.option[transcode_value][1] = 3
                    /\ old = <<0, 0>>
            THEN position_set \cup {description_value}
            ELSE position_set
    IN  IF position[1] # 0
        THEN [row |-> OptionRow(date_value, description_value,
                                transcode_value, quantity_value, price_value,
                                amount_value, NoProfit),
              position_dict |->
                  dict_set(position_dict, description_value, position),
              position_set |-> marked]
        ELSE [row |-> OptionRow(date_value, description_value,
                                transcode_value, quantity_value, price_value,
                                amount_value, Profit(position[2])),
              position_dict |->
                  dict_set(position_dict, description_value, <<0, 0>>),
              position_set |-> marked]

\* the loop body for one entry: the row appended, the leg positions and the
\* awaiting legs after
save_option_entry(config, entry, position_dict, position_set) ==
    LET date_value == entry.key[1]
        transcode_value == entry.key[2]
        price_value == entry.key[3]
        description_value == entry.key[4]
        quantity_value == entry.value[1]
        amount_value == entry.value[2]
        old == dict_get(position_dict, description_value)
        awaiting == description_value \in position_set
        position ==
            IF awaiting
            THEN <<calculate_quantity_value_from_record(
                       transcode_value, quantity_value, old[1]),
                   amount_value>>
            ELSE <<calculate_quantity_value_from_balance(
                       config, position_dict, transcode_value,
                       description_value, quantity_value, old[1]),
                   old[2] + amount_value>>
        marked ==
            IF awaiting
            THEN position_set \ {description_value}
            ELSE IF /\ config.option[transcode_value][1] = 3
                    /\ ~dict_has(position_dict, description_value)
            THEN position_set \cup {description_value}
            ELSE position_set
    IN  IF position[1] # 0
        THEN [row |-> OptionRow(date_value, description_value,
                                transcode_value, quantity_value, price_value,
                                amount_value, NoProfit),
              position_dict |->
                  dict_set(position_dict, description_value, position),
              position_set |-> marked]
        ELSE [row |-> OptionRow(date_value, description_value,
                                transcode_value, quantity_value, price_value,
                                amount_value, Profit(position[2])),
              position_dict |->
                  dict_set(position_dict, description_value, <<0, 0>>),
              position_set |-> marked]

\* main: the STOCK sheet is written, then save_option_result starts
SaveOptionStart ==
    /\ pc = "stock_saved"
    /\ option_key_done' = 0
    /\ position_data_dict' = <<>>
    /\ position_data_set' = {}
    /\ option_data_list' = <<>>
    /\ pc' = "save_option"
    /\ UNCHANGED <<option_sheet, instrument_config_dict, instrument_value,
                   instrument_df, row_done, convert_vars, save_stock_vars,
                   resolver_vars, assembler_vars, parser_vars, main_vars>>

SaveOptionRow ==
    /\ pc = "save_option"
    /\ option_key_done < Len(option_data_dict)
    /\ LET entry == option_data_dict[Len(option_data_dict) - option_key_done]
           step == save_option_entry(instrument_config_dict, entry,
                                     position_data_dict, position_data_set)
       IN  /\ option_data_list' = Append(option_data_list, step.row)
           /\ position_data_dict' = step.position_dict
           /\ position_data_set' = step.position_set
    /\ option_key_done' = option_key_done + 1
    /\ UNCHANGED <<pc, option_sheet, instrument_config_dict, instrument_value,
                   instrument_df, row_done, convert_vars, save_stock_vars,
                   resolver_vars, assembler_vars, parser_vars, main_vars>>

\* option_df.to_excel(writer, sheet_name='OPTION')
SaveOptionWrite ==
    /\ pc = "save_option"
    /\ option_key_done = Len(option_data_dict)
    /\ option_sheet' = option_data_list
    /\ pc' = "option_saved"
    /\ UNCHANGED <<option_key_done, position_data_dict, position_data_set,
                   option_data_list, instrument_config_dict, instrument_value,
                   instrument_df, row_done, convert_vars, save_stock_vars,
                   resolver_vars, assembler_vars, parser_vars, main_vars>>

-----------------------------------------------------------------------------
(* A stock ledger pass over one instrument group of buys and sells *)

Tx(date_value, description, transcode, quantity, price, amount) ==
    [ActivityDate |-> date_value, Description |-> description,
     TransCode |-> transcode, Quantity |-> quantity, Price |-> price,
     Amount |-> amount]

TradeDates == {"2024-01-02", "2024-01-03"}
TradeCodes == {"Buy", "Sell"}
\* Quantity after fillna(0).astype(int): 0 for a cell that is no number
TradeQuantities == {0, 1, 2}
TradePrices == {10}
TradeAmounts == {10, 25}

TradeRows ==
    {Tx(d, <<"Apple">>, c, q, p, a) :
        d \in TradeDates, c \in TradeCodes, q \in TradeQuantities,
        p \in TradePrices, a \in TradeAmounts}

InitStockLedger ==
    /\ pc = "convert"
    /\ instrument_config_dict =
           [stock |-> stock_transcode_config, option |-> <<>>]
    /\ SaveOptionIdle
    /\ instrument_value = "AAPL"
    /\ \E n \in 1..MaxTx : instrument_df \in [1..n -> TradeRows]
    /\ row_done = 0
    /\ stock_data_dict = <<>>
    /\ option_data_dict = <<>>
    /\ day_trade_dict = <<>>
    /\ undefined_logged = 0
    /\ key_done = 0
    /\ quantity_sum_value = 0
    /\ amount_sum_value = 0
    /\ stock_data_list = <<>>
    /\ stock_sheet = <<>>
    /\ MainIdle
    /\ ResolverIdle
    /\ ParserIdle
    /\ AssemblerIdle

NextStockLedger == ConvertRow \/ SaveStockRow \/ SaveStockWrite

SpecStockLedger == InitStockLedger /\ [][NextStockLedger]_vars

-----------------------------------------------------------------------------
(* A stock ledger pass over rows of every kind: class 0 (Buy, Sell), class *)
(* 2 (AFEE), a class-1 code of either factor, and a code no config lists   *)

ClassOneCode == "SPL"
UndefinedCode == "ACH"

\* the config files the pass may have loaded: the class-1 code adds or
\* subtracts
StockConfigs ==
    {[stock  |-> stock_transcode_config @@ (ClassOneCode :> <<1, f>>),
      option |-> <<>>] : f \in {1, -1}}

ClassRows ==
    {Tx(d, <<"Apple">>, c, q, 10, 10) :
        d \in TradeDates,
        c \in {"Buy", "Sell", "AFEE", ClassOneCode, UndefinedCode},
        q \in {1, 2}}

\* the state main hands to get_stock_and_option_dict for one group
LedgerStart(configs, rows) ==
    /\ pc = "convert"
    /\ instrument_config_dict \in configs
    /\ instrument_value = "AAPL"
    /\ \E n \in 1..MaxTx : instrument_df \in [1..n -> rows]
    /\ row_done = 0
    /\ stock_data_dict = <<>>
    /\ option_data_dict = <<>>
    /\ day_trade_dict = <<>>
    /\ undefined_logged = 0
    /\ key_done = 0
    /\ quantity_sum_value = 0
    /\ amount_sum_value = 0
    /\ stock_data_list = <<>>
    /\ stock_sheet = <<>>
    /\ SaveOptionIdle
    /\ MainIdle
    /\ ResolverIdle
    /\ ParserIdle
    /\ AssemblerIdle

InitStockClasses == LedgerStart(StockConfigs, ClassRows)

SpecStockClasses == InitStockClasses /\ [][NextStockLedger]_vars

-----------------------------------------------------------------------------
(* A whole ledger pass over a group of stock rows and of option rows of    *)
(* two legs, under configs that give every option code every class         *)

OptionCodes == <<"BTO", "STC", "STO", "BTC">>

\* a buy adds to the quantity, a sell takes from it
OptionFactor(transcode_value) ==
    IF transcode_value \in {"BTO", "BTC"} THEN 1 ELSE -1

\* the r-th config: the codes' classes are 0, 1, 2, 3 rotated by r
OptionConfig(r) ==
    [stock  |-> stock_transcode_config,
     option |-> [c \in {OptionCodes[j] : j \in 1..4} |->
                    LET j == CHOOSE h \in 1..4 : OptionCodes[h] = c
                    IN  <<(j - 1 + r) % 4, OptionFactor(c)>>]]

OptionConfigs == {OptionConfig(r) : r \in 0..3}

LegCall == <<"AAPL", "1/19/2024", "Call", "$150.00">>
LegPut == <<"AAPL", "1/19/2024", "Put", "$140.00">>

\* the Description cell of an option row: the company words, then the leg
OptionDescription(leg) == <<"Apple">> \o leg

LedgerRows ==
    {Tx("2024-01-02", <<"Apple">>, c, 1, 10, 10) :
        c \in {"Buy", "Sell", "AFEE"}}
    \cup {Tx("2024-01-02", OptionDescription(LegCall), c, q, 10, 10) :
              c \in {OptionCodes[j] : j \in 1..4}, q \in {1, 2}}
    \cup {Tx("2024-01-02", OptionDescription(LegPut), c, 1, 10, 10) :
              c \in {OptionCodes[j] : j \in 1..4}}

InitLedger == LedgerStart(OptionConfigs, LedgerRows)

NextLedger ==
    \/ ConvertRow
    \/ SaveStockRow
    \/ SaveStockWrite
    \/ SaveOptionStart
    \/ SaveOptionRow
    \/ SaveOptionWrite

SpecLedger == InitLedger /\ [][NextLedger]_vars

\* a group that meets one leg on two dates, so that a code comes back under
\* a new key, next to one stock row
DatedRows ==
    {Tx("2024-01-02", <<"Apple">>, "Buy", 1, 10, 10)}
    \cup {Tx(d, OptionDescription(LegCall), c, 1, 10, 10) :
              d \in {"2024-01-02", "2024-01-03"},
              c \in {OptionCodes[j] : j \in 1..4}}

InitOptionDates == LedgerStart(OptionConfigs, DatedRows)

SpecOptionDates == InitOptionDates /\ [][NextLedger]_vars

-----------------------------------------------------------------------------
(* main of robinhood_reports_convertor.py over an input of two             *)
(* instruments: one ledger pass per group of input_df.groupby('Instrument')*)

\* the instruments, in the order groupby sorts its keys
Instruments == <<"AAPL", "MSFT">>

InstrumentRow(instrument, row) == [Instrument |-> instrument, row |-> row]

\* the keys of df.groupby('Instrument'): the instruments that have rows
groupby_keys(df) ==
    SelectSeq(Instruments,
              LAMBDA g : \E j \in 1..Len(df) : df[j].Instrument = g)

\* the group of a key: its rows, in the order they have in df
groupby_rows(df, instrument) ==
    LET own == SelectSeq(df, LAMBDA r : r.Instrument = instrument)
    IN  [j \in 1..Len(own) |-> own[j].row]

\* a slip: the dicts and the day-trade counter outlive the group
MainGroupSharedDicts ==
    /\ pc \in {"groups", "option_saved"}
    /\ groups_done < Len(groupby_keys(convertor_input_df))
    /\ LET instrument == groupby_keys(convertor_input_df)[groups_done + 1]
       IN  /\ instrument_value' = instrument
           /\ instrument_df' = groupby_rows(convertor_input_df, instrument)
    /\ groups_done' = groups_done + 1
    /\ row_done' = 0
    /\ key_done' = 0
    /\ quantity_sum_value' = 0
    /\ amount_sum_value' = 0
    /\ stock_data_list' = <<>>
    /\ stock_sheet' = <<>>
    /\ option_sheet' = <<>>
    /\ pc' = "convert"
    /\ UNCHANGED <<stock_data_dict, option_data_dict, day_trade_dict,
                   instrument_config_dict, undefined_logged, option_key_done,
                   position_data_dict, position_data_set, option_data_list,
                   convertor_input_df, resolver_vars, assembler_vars,
                   parser_vars>>

\* one iteration of "for instrument_value, instrument_df in
\* input_df.groupby('Instrument')" up to the first row: the callees create
\* their dicts, counter, sums and row list on entry, and the sheets go to
\* the instrument's own workbook
MainGroup ==
    /\ pc \in {"groups", "option_saved"}
    /\ groups_done < Len(groupby_keys(convertor_input_df))
    /\ LET instrument == groupby_keys(convertor_input_df)[groups_done + 1]
       IN  /\ instrument_value' = instrument
           /\ instrument_df' = groupby_rows(convertor_input_df, instrument)
    /\ groups_done' = groups_done + 1
    /\ row_done' = 0
    /\ stock_data_dict' = <<>>
    /\ option_data_dict' = <<>>
    /\ day_trade_dict' = <<>>
    /\ key_done' = 0
    /\ quantity_sum_value' = 0
    /\ amount_sum_value' = 0
    /\ stock_data_list' = <<>>
    /\ stock_sheet' = <<>>
    /\ option_sheet' = <<>>
    /\ pc' = "convert"
    /\ UNCHANGED <<instrument_config_dict, undefined_logged, option_key_done,
                   position_data_dict, position_data_set, option_data_list,
                   convertor_input_df, resolver_vars, assembler_vars,
                   parser_vars>>

\* the loop is over: the closing log lines
ConvertorFinish ==
    /\ pc = "option_saved"
    /\ groups_done = Len(groupby_keys(convertor_input_df))
    /\ pc' = "finished"
    /\ UNCHANGED <<resolver_vars, assembler_vars, parser_vars, ledger_vars,
                   main_vars>>

\* the Description cell of an option row of an instrument
InstrumentLeg(instrument) ==
    <<"Option", instrument, "1/19/2024", "Call", "$150.00">>

ConvertorRows ==
    {InstrumentRow(i, Tx("2024-01-02", <<"Stock">>, c, 1, 10, 10)) :
        i \in {Instruments[j] : j \in 1..2}, c \in {"Buy", "Sell"}}
    \cup {InstrumentRow(i, Tx("2024-01-02", InstrumentLeg(i), c, 1, 10, 10)) :
              i \in {Instruments[j] : j \in 1..2},
              c \in {OptionCodes[j] : j \in 1..4}}

InitConvertor ==
    /\ pc = "groups"
    /\ instrument_config_dict \in OptionConfigs
    /\ \E n \in 1..MaxTx : convertor_input_df \in [1..n -> ConvertorRows]
    /\ groups_done = 0
    /\ instrument_value = ""
    /\ instrument_df = <<>>
    /\ row_done = 0
    /\ stock_data_dict = <<>>
    /\ option_data_dict = <<>>
    /\ day_trade_dict = <<>>
    /\ undefined_logged = 0
    /\ key_done = 0
    /\ quantity_sum_value = 0
    /\ amount_sum_value = 0
    /\ stock_data_list = <<>>
    /\ stock_sheet = <<>>
    /\ SaveOptionIdle
    /\ ResolverIdle
    /\ ParserIdle
    /\ AssemblerIdle

NextConvertor ==
    \/ MainGroup
    \/ ConvertRow
    \/ SaveStockRow
    \/ SaveStockWrite
    \/ SaveOptionStart
    \/ SaveOptionRow
    \/ SaveOptionWrite
    \/ ConvertorFinish

SpecConvertor == InitConvertor /\ [][NextConvertor]_vars

-----------------------------------------------------------------------------
(* Properties of the overlap resolver (SpecResolver) *)

\* the i of 1..len(B) whose sorted windows are row-for-row equal
MatchLengths(A, B) == {i \in 1..Len(B) : windows_equal(A, B, i)}

\* the k for which the last k rows of A are, row by row, the first k of B
ExactOverlaps(A, B) ==
    {k \in 1..Min(Len(A), Len(B)) : iloc_tail(A, k) = iloc_head(B, k)}

Least(S) == CHOOSE i \in S : \A j \in S : i <= j
Greatest(S) == CHOOSE i \in S : \A j \in S : i >= j

Returned == pc = "returned"

RowsRemoved == Len(second_df) - Len(filtered_df)

\* C1: when some i of 1..len(B) makes the sorted last i rows of A equal to
\* the sorted first i rows of B, the call stops at the smallest such i:
\* it logs that i and returns B without exactly its first i rows, also
\* when a larger i matches as well.
C1_FirstMatchWins ==
    Returned =>
        LET M == MatchLengths(first_df, second_df)
        IN  M # {} =>
                /\ log_record = Found(Least(M))
                /\ filtered_df =
                       SubSeq(second_df, Least(M) + 1, Len(second_df))

\* a call where two lengths match and the smaller one was taken
C1_Witness ==
    /\ Returned
    /\ Cardinality(MatchLengths(first_df, second_df)) >= 2
    /\ RowsRemoved = Least(MatchLengths(first_df, second_df))
    /\ RowsRemoved < Greatest(MatchLengths(first_df, second_df))

\* C2: the resolver removes the largest prefix of B that duplicates the
\* suffix of A it overlaps with, and returns B with that prefix removed.
C2_LargestPrefixRemoved ==
    Returned =>
        LET M == MatchLengths(first_df, second_df)
        IN  filtered_df =
                IF M = {} THEN second_df
                ELSE drop_head(second_df, Greatest(M))

\* C3: when a suffix of A is duplicated as a prefix of B, A followed by the
\* returned table is A followed by B's unique suffix: no row of the
\* duplicated boundary is there twice, no row of B's unique tail is missing.
C3_ConcatIsAThenUniqueSuffix ==
    Returned =>
        LET E == ExactOverlaps(first_df, second_df)
        IN  E # {} =>
                first_df \o filtered_df =
                    first_df \o drop_head(second_df, Greatest(E))

\* C4: when no i of 1..len(B) matches, the call returns B unmodified, every
\* row in B's order, and logs the absence at info level: it is no error.
C4_NoOverlapReturnsB ==
    Returned =>
        (MatchLengths(first_df, second_df) = {} =>
            /\ filtered_df = second_df
            /\ log_record = NotFound
            /\ log_record.level # "error")

\* a call on two non-empty tables that share no boundary
C4_Witness ==
    /\ Returned
    /\ first_df # <<>>
    /\ second_df # <<>>
    /\ MatchLengths(first_df, second_df) = {}
    /\ filtered_df = second_df

\* C5: the number of rows removed from the head of B is within 0..len(B);
\* it is 0 exactly when the call reports that no overlap was found, and a
\* reported overlap states the number removed, which is at least 1: no
\* overlap and an overlap of a single row are told apart.
C5_OverlapLengthInRange ==
    Returned =>
        /\ RowsRemoved \in 0..Len(second_df)
        /\ filtered_df = drop_head(second_df, RowsRemoved)
        /\ (RowsRemoved = 0) <=> ~log_record.found
        /\ log_record.found =>
               /\ log_record.rows = RowsRemoved
               /\ RowsRemoved >= 1

\* a call that found an overlap of a single row
C5_Witness ==
    /\ Returned
    /\ RowsRemoved = 1
    /\ log_record = Found(1)
    /\ Len(second_df) >= 2

\* C24: the call never removes more rows of B than A has: for every i of
\* 1..len(B) above len(A) the window of A has fewer than i rows and does not
\* equal the first i rows of B; an empty A removes no row of B.
C24_OverlapWithinA ==
    Returned =>
        /\ RowsRemoved <= Len(first_df)
        /\ log_record.found => log_record.rows <= Len(first_df)
        /\ \A i \in 1..Len(second_df) :
               i > Len(first_df) =>
                   /\ Len(iloc_tail(first_df, i)) < i
                   /\ ~windows_equal(first_df, second_df, i)
        /\ first_df = <<>> =>
               /\ filtered_df = second_df
               /\ ~log_record.found

\* a B of three rows whose last is the one row of A: the scan went through
\* two windows longer than A and found no overlap
C24_Witness ==
    /\ Returned
    /\ Len(first_df) = 1
    /\ Len(second_df) = 3
    /\ second_df[3] = first_df[1]
    /\ second_df[1] # first_df[1]
    /\ ~log_record.found
    /\ filtered_df = second_df

-----------------------------------------------------------------------------
(* Properties of the report assembler (Spec, SpecEndToEnd) *)

\* the loaded tables of the files of config part j, in file order
PartTables(j) ==
    [k \in 1..Len(csv_config[j]) |-> load_input_df(csv_config[j][k])]

\* every loaded table, in file order
AllTables == [k \in 1..Len(csv_files) |-> load_input_df(k)]

\* R(T1,T2) ++ ... ++ R(Tk,Tk+1)
RECURSIVE Continuations(_, _)
Continuations(T, k) ==
    IF k = 0 THEN <<>>
    ELSE Continuations(T, k - 1)
             \o get_non_overlap_dataframe(T[k], T[k + 1]).df

Done == pc = "done"

\* C6: two reports of 5 rows whose boundary of 2 rows is shared give a
\* master table of 5 + 5 - 2 = 8 rows, the rows of report 1 first and the
\* rows of report 2 past the boundary after them.
C6_EndToEndRowCount ==
    Done =>
        /\ Len(output_csv.rows) = ReportRows + ReportRows - OverlapRows
        /\ output_csv.rows =
               load_input_df(1) \o drop_head(load_input_df(2), OverlapRows)

\* C7: save_first_result writes T1 ++ R(T1,T2) ++ ... ++ R(Tn-1,Tn) for the
\* tables T1..Tn of the first part: the first table in full, then each
\* later table's continuation past its predecessor, in order.
C7_FirstResultIsFold ==
    part_done = 1 =>
        LET T == PartTables(1)
        IN  output_csv.rows = T[1] \o Continuations(T, Len(T) - 1)

\* a first part of three files, written with a boundary removed
C7_Witness ==
    /\ part_done = 1
    /\ Len(csv_config[1]) = 3
    /\ output_csv.rows # <<>>
    /\ Len(output_csv.rows) <
           Len(PartTables(1)[1]) + Len(PartTables(1)[2]) + Len(PartTables(1)[3])

\* C8: however the file list is cut into consecutive non-empty parts, the
\* finished master table has the rows, in the order, that assembling the
\* whole list as one part gives; the table that seeds a later part is not
\* written again.
C8_BatchesEqualOneBatch ==
    Done => output_csv.rows = save_first_result(AllTables)

\* a finished run of more than one part whose seed table is non-empty and
\* overlaps the first table of the part it seeds
C8_Witness ==
    /\ Done
    /\ Len(csv_config) >= 2
    /\ LET seed == load_input_df(csv_config[1][Len(csv_config[1])])
           next == load_input_df(csv_config[2][1])
       IN  /\ seed # <<>>
           /\ get_non_overlap_dataframe(seed, next).log.found

-----------------------------------------------------------------------------
(* Properties of the stock ledger (SpecStockLedger) *)

RECURSIVE SeqSum(_)
SeqSum(ns) == IF ns = <<>> THEN 0 ELSE ns[1] + SeqSum(Tail(ns))

StockFactor(row) == instrument_config_dict.stock[row.TransCode][2]

AllClassZero(df) ==
    \A j \in 1..Len(df) :
        /\ df[j].TransCode \in DOMAIN instrument_config_dict.stock
        /\ instrument_config_dict.stock[df[j].TransCode][1] = 0

\* the sum over the input rows of factor * quantity
WeightedQuantity(df) ==
    SeqSum([j \in 1..Len(df) |-> StockFactor(df[j]) * df[j].Quantity])

\* the sum over the input rows of factor * amount
WeightedAmount(df) ==
    SeqSum([j \in 1..Len(df) |-> StockFactor(df[j]) * df[j].Amount])

\* one or more Buy rows, then one or more Sell rows
BuysThenSells(df) ==
    \E k \in 1..(Len(df) - 1) :
        \A j \in 1..Len(df) :
            df[j].TransCode = IF j <= k THEN "Buy" ELSE "Sell"

AllQuantitiesPositive(df) == \A j \in 1..Len(df) : df[j].Quantity > 0

StockSaved == pc = "stock_saved"

ProfitRows == {j \in 1..Len(stock_sheet) : stock_sheet[j].Profit # NoProfit}

\* C9: when every code of the group is of class 0, the Quantity cells of the
\* STOCK rows add up to the sum over the input rows of factor * quantity:
\* merging rows under one key loses and fabricates no quantity.
C9_QuantityConserved ==
    (StockSaved /\ AllClassZero(instrument_df)) =>
        SeqSum([j \in 1..Len(stock_sheet) |-> stock_sheet[j].Quantity])
            = WeightedQuantity(instrument_df)

\* a pass that merged input rows under one key and kept a net quantity
C9_Witness ==
    /\ StockSaved
    /\ AllClassZero(instrument_df)
    /\ Len(stock_sheet) >= 2
    /\ Len(stock_sheet) < Len(instrument_df)
    /\ WeightedQuantity(instrument_df) # 0

\* C10 as stated: for every sequence of buys followed by sells whose
\* quantities net to zero, exactly one STOCK row has a Profit, and it is
\* minus the factor-weighted sum of the amounts of the cycle (a buy counts
\* as minus its amount, a sell as plus its amount).
C10_ProfitAtClosure ==
    (/\ StockSaved
     /\ BuysThenSells(instrument_df)
     /\ WeightedQuantity(instrument_df) = 0) =>
        /\ Cardinality(ProfitRows) = 1
        /\ \A j \in ProfitRows :
               stock_sheet[j].Profit
                   = Profit(0 - WeightedAmount(instrument_df))

\* C10, amended: the same for buys and sells that each move a quantity
\* above zero; the one Profit is on the last row written, the oldest key.
C10_ProfitAtClosurePositive ==
    (/\ StockSaved
     /\ BuysThenSells(instrument_df)
     /\ AllQuantitiesPositive(instrument_df)
     /\ WeightedQuantity(instrument_df) = 0) =>
        /\ ProfitRows = {Len(stock_sheet)}
        /\ stock_sheet[Len(stock_sheet)].Profit
               = Profit(0 - WeightedAmount(instrument_df))

\* a closed cycle of three keys with a profit other than zero
C10_Witness ==
    /\ StockSaved
    /\ BuysThenSells(instrument_df)
    /\ AllQuantitiesPositive(instrument_df)
    /\ WeightedQuantity(instrument_df) = 0
    /\ Len(stock_sheet) = 3
    /\ stock_sheet[3].Profit # NoProfit
    /\ stock_sheet[3].Profit # Profit(0)

-----------------------------------------------------------------------------
(* Properties of the whole ledger pass (SpecLedger) *)

LastRow(rows) == rows[Len(rows)]

StockClass(transcode_value) ==
    instrument_config_dict.stock[transcode_value][1]

OptionClass(transcode_value) ==
    instrument_config_dict.option[transcode_value][1]

\* the running quantity of the leg of an OPTION row, after that row
LegQuantity(row) == dict_get(position_data_dict, row.Description)[1]

\* C11 as stated: the STOCK row and the OPTION row appended last carries a
\* Profit exactly when the running quantity is zero after it; every row is
\* the last one appended in some state of the pass.
C11_ProfitOnlyAtClosure ==
    /\ stock_data_list # <<>> =>
           (LastRow(stock_data_list).Profit # NoProfit
                <=> quantity_sum_value = 0)
    /\ option_data_list # <<>> =>
           (LastRow(option_data_list).Profit # NoProfit
                <=> LegQuantity(LastRow(option_data_list)) = 0)

\* C11, amended: a row carries a Profit exactly when it is a STOCK row of a
\* class-2 code or the running quantity is zero after it.
C11_ProfitAtClosureOrClassTwo ==
    /\ stock_data_list # <<>> =>
           (LastRow(stock_data_list).Profit # NoProfit
                <=> \/ StockClass(LastRow(stock_data_list).Type) = 2
                    \/ quantity_sum_value = 0)
    /\ option_data_list # <<>> =>
           (LastRow(option_data_list).Profit # NoProfit
                <=> LegQuantity(LastRow(option_data_list)) = 0)

\* a class-2 STOCK row written with its Profit, and a leg opened by one
\* OPTION row and closed by the next
C11_Witness ==
    /\ Len(stock_data_list) = 1
    /\ StockClass(LastRow(stock_data_list).Type) = 2
    /\ LastRow(stock_data_list).Profit # NoProfit
    /\ Len(option_data_list) = 2
    /\ option_data_list[1].Profit = NoProfit
    /\ option_data_list[2].Profit # NoProfit

-----------------------------------------------------------------------------
(* Properties of the stock ledger over rows of every kind                  *)
(* (SpecStockClasses)                                                      *)

Converting == pc = "convert" /\ row_done < Len(instrument_df)

NextCode == instrument_df[row_done + 1].TransCode

Undefined(transcode_value) ==
    /\ transcode_value \notin DOMAIN instrument_config_dict.stock
    /\ transcode_value \notin DOMAIN instrument_config_dict.option

\* C12: the step that consumes a row whose code is in neither the stock nor
\* the option config changes no stock key, no option key and no day-trade
\* counter, logs one warning, and goes on to the next row.
C12_UndefinedRowDropped ==
    [][(Converting /\ Undefined(NextCode)) =>
           /\ stock_data_dict' = stock_data_dict
           /\ option_data_dict' = option_data_dict
           /\ day_trade_dict' = day_trade_dict
           /\ undefined_logged' = undefined_logged + 1
           /\ row_done' = row_done + 1
           /\ pc' \in {"convert", "save_stock"}]_vars

\* a row of an undefined code was consumed between two stock rows of one
\* date: the accumulators hold the first, the third is still to come
C12_Witness ==
    /\ pc = "convert"
    /\ row_done = 2
    /\ Len(instrument_df) = 3
    /\ Undefined(instrument_df[2].TransCode)
    /\ undefined_logged = 1
    /\ Len(stock_data_dict) = 1
    /\ ~Undefined(instrument_df[3].TransCode)
    /\ instrument_df[3].ActivityDate = instrument_df[1].ActivityDate

IsStockRow(j) == instrument_df[j].TransCode \in DOMAIN instrument_config_dict.stock

\* the stock rows of the date of row j that come before row j
EarlierStockRows(j) ==
    {i \in 1..(j - 1) :
        /\ IsStockRow(i)
        /\ instrument_df[i].ActivityDate = instrument_df[j].ActivityDate}

\* the stock rows up to row j, of its date, whose code is not that of the
\* stock row of the date just before them
CodeChanges(j) ==
    {i \in EarlierStockRows(j) \cup {j} :
        /\ EarlierStockRows(i) # {}
        /\ LET before == CHOOSE h \in EarlierStockRows(i) :
                             \A g \in EarlierStockRows(i) : g <= h
           IN  instrument_df[i].TransCode # instrument_df[before].TransCode}

\* 1 for the first stock row of a date, one more for every change of code
SequenceNumber(j) == 1 + Cardinality(CodeChanges(j))

StockKey(j) ==
    <<instrument_df[j].ActivityDate, instrument_df[j].TransCode,
      instrument_df[j].Price, SequenceNumber(j)>>

ConsumedStockRows == {j \in 1..row_done : IsStockRow(j)}

Keys(d) == {d[j].key : j \in 1..Len(d)}

\* C15: the first stock row of a date has sequence number 1, a later one
\* has one more than the stock row of that date before it when its code
\* differs and the same number otherwise; the stock keys are exactly those
\* of the consumed stock rows with their number as last component, and the
\* counter of each date stands at the number of its latest stock row.
C15_DayTradeSequence ==
    /\ Keys(stock_data_dict) = {StockKey(j) : j \in ConsumedStockRows}
    /\ DOMAIN day_trade_dict
           = {instrument_df[j].ActivityDate : j \in ConsumedStockRows}
    /\ \A j \in ConsumedStockRows :
           (\A i \in ConsumedStockRows : j \notin EarlierStockRows(i)) =>
               LastRow(day_trade_dict[instrument_df[j].ActivityDate])
                   = <<instrument_df[j].TransCode, SequenceNumber(j)>>

\* three stock rows of one date: the second repeats the code of the first
\* and keeps number 1, the third changes the code and takes number 2
C15_Witness ==
    /\ row_done = 3
    /\ ConsumedStockRows = {1, 2, 3}
    /\ EarlierStockRows(3) = {1, 2}
    /\ instrument_df[1].TransCode = instrument_df[2].TransCode
    /\ instrument_df[3].TransCode # instrument_df[2].TransCode
    /\ instrument_df[1].Quantity # instrument_df[2].Quantity
    /\ LastRow(day_trade_dict[instrument_df[3].ActivityDate])[2] = 2
    /\ Len(stock_data_dict) = 2

NextRow == instrument_df[row_done + 1]

\* C16: the step that consumes a stock row of a class-1 code stores, under
\* the row's key, the old quantity plus factor * quantity when the old
\* quantity is 0 and the old quantity minus factor * quantity otherwise,
\* with an amount of 0.
C16_ClassOneFlips ==
    [][(/\ Converting
        /\ IsStockRow(row_done + 1)
        /\ StockClass(NextCode) = 1) =>
           LET key == StockKey(row_done + 1)
               old == dict_get(stock_data_dict, key)
               weighted ==
                   instrument_config_dict.stock[NextCode][2]
                       * NextRow.Quantity
           IN  dict_get(stock_data_dict', key)
                   = <<IF old[1] = 0 THEN old[1] + weighted
                       ELSE old[1] - weighted,
                       0>>]_vars

\* two rows of the class-1 code under one key: the first was added to the
\* quantity 0, the second, of another quantity, taken from what was held
C16_Witness ==
    /\ row_done = 2
    /\ ConsumedStockRows = {1, 2}
    /\ StockClass(instrument_df[1].TransCode) = 1
    /\ StockClass(instrument_df[2].TransCode) = 1
    /\ StockKey(1) = StockKey(2)
    /\ instrument_df[1].Quantity # instrument_df[2].Quantity
    /\ Len(stock_data_dict) = 1
    /\ stock_data_dict[1].value[1] # 0

\* the k-th key save_stock_result takes: reversed(stock_data_dict.items())
Emitted(k) == stock_data_dict[Len(stock_data_dict) - k + 1]

\* whether the k-th key goes into the running sums: its class is not 2
Counted(k) == StockClass(Emitted(k).key[2]) # 2

\* the quantities of the counted keys among the first k, added up
RunningQuantity(k) ==
    SeqSum([i \in 1..k |-> IF Counted(i) THEN Emitted(i).value[1] ELSE 0])

\* the counted keys among the first k after which no quantity is held
Closures(k) == {i \in 1..k : Counted(i) /\ RunningQuantity(i) = 0}

\* the amounts of the counted keys among the first k that come after the
\* latest closure before key k, added up
OpenAmount(k) ==
    LET from == Greatest(Closures(k - 1) \cup {0})
    IN  SeqSum([i \in 1..k |->
                   IF Counted(i) /\ i > from
                   THEN Emitted(i).value[2] ELSE 0])

\* the amounts of the counted keys among the first k that come after the
\* latest closure among them, added up: 0 when key k is a closure
CarriedAmount(k) ==
    LET from == Greatest(Closures(k) \cup {0})
    IN  SeqSum([i \in 1..k |->
                   IF Counted(i) /\ i > from
                   THEN Emitted(i).value[2] ELSE 0])

\* C17: over the keys of a class other than 2, in the order written, a row
\* carries as Profit the amounts added up since the closure before it
\* exactly when the quantities added up to and with it are 0, and no Profit
\* otherwise; the running quantity is that sum, and the running amount is 0
\* after a closing row and carries the amounts since the latest closure
\* otherwise.
C17_RunningSums ==
    /\ \A k \in 1..Len(stock_data_list) :
           Counted(k) =>
               stock_data_list[k].Profit
                   = IF RunningQuantity(k) = 0
                     THEN Profit(OpenAmount(k)) ELSE NoProfit
    /\ quantity_sum_value = RunningQuantity(key_done)
    /\ amount_sum_value = CarriedAmount(key_done)

\* two keys written without a Profit, then a closing key whose Profit is
\* not 0, which set the running amount back to 0
C17_Witness ==
    /\ Len(stock_data_list) = 3
    /\ Counted(1) /\ Counted(2) /\ Counted(3)
    /\ stock_data_list[1].Profit = NoProfit
    /\ stock_data_list[2].Profit = NoProfit
    /\ stock_data_list[3].Profit # NoProfit
    /\ stock_data_list[3].Profit # Profit(0)
    /\ amount_sum_value = 0

SavingStock == pc = "save_stock" /\ key_done < Len(stock_data_dict)

\* C18: the step that writes a key of a class-2 code appends a row with
\* Quantity 0, Price 0 and the key's amount as both Amount and Profit, and
\* leaves the running quantity and the running amount as they were.
C18_ClassTwoRow ==
    [][(SavingStock /\ ~Counted(key_done + 1)) =>
           LET entry == Emitted(key_done + 1)
           IN  /\ stock_data_list'
                      = Append(stock_data_list,
                               StockRow(entry.key[1], entry.key[2], 0, 0,
                                        entry.value[2],
                                        Profit(entry.value[2])))
               /\ quantity_sum_value' = quantity_sum_value
               /\ amount_sum_value' = amount_sum_value]_vars

\* a class-2 key that two input rows were merged into, written after a key
\* that left a quantity and an amount running
C18_Witness ==
    /\ pc = "save_stock"
    /\ key_done = 2
    /\ Len(instrument_df) = 3
    /\ Len(stock_data_dict) = 2
    /\ ~Counted(2)
    /\ stock_data_list[2].Profit # NoProfit
    /\ stock_data_list[2].Amount = Emitted(2).value[2]
    /\ stock_data_list[2].Quantity = 0
    /\ quantity_sum_value # 0
    /\ amount_sum_value # 0

-----------------------------------------------------------------------------
(* The order of the keys and of the rows written (SpecLedger) *)

IsOptionRow(j) ==
    /\ ~IsStockRow(j)
    /\ instrument_df[j].TransCode \in DOMAIN instrument_config_dict.option

OptionKey(j) ==
    <<instrument_df[j].ActivityDate, instrument_df[j].TransCode,
      instrument_df[j].Price,
      leg_description(instrument_value, instrument_df[j].Description)>>

\* the keys of the consumed stock rows and option rows, in input order
ConsumedStockKeys ==
    LET rows == SelectSeq([j \in 1..row_done |-> j], IsStockRow)
    IN  [k \in 1..Len(rows) |-> StockKey(rows[k])]

ConsumedOptionKeys ==
    LET rows == SelectSeq([j \in 1..row_done |-> j], IsOptionRow)
    IN  [k \in 1..Len(rows) |-> OptionKey(rows[k])]

\* the distinct keys among the first n of a list, each where it first occurs
RECURSIVE FirstSeen(_, _)
FirstSeen(keys, n) ==
    IF n = 0 THEN <<>>
    ELSE IF \E i \in 1..(n - 1) : keys[i] = keys[n]
    THEN FirstSeen(keys, n - 1)
    ELSE Append(FirstSeen(keys, n - 1), keys[n])

KeyList(d) == [j \in 1..Len(d) |-> d[j].key]

Reversed(list) == [k \in 1..Len(list) |-> list[Len(list) - k + 1]]

OptionSaved == pc = "option_saved"

\* C19: each dict holds every distinct key once, in the order the keys
\* first occur in the input, at every point of the pass, so a row merged
\* into a stored key moves nothing; each sheet has one row per key, in the
\* reverse of that order.
C19_ReverseFirstInsertionOrder ==
    /\ KeyList(stock_data_dict)
           = FirstSeen(ConsumedStockKeys, Len(ConsumedStockKeys))
    /\ KeyList(option_data_dict)
           = FirstSeen(ConsumedOptionKeys, Len(ConsumedOptionKeys))
    /\ OptionSaved =>
           /\ [k \in 1..Len(stock_sheet) |->
                   <<stock_sheet[k].Date, stock_sheet[k].Type>>]
                  = Reversed([j \in 1..Len(stock_data_dict) |->
                                 <<stock_data_dict[j].key[1],
                                   stock_data_dict[j].key[2]>>])
           /\ [k \in 1..Len(option_sheet) |->
                   <<option_sheet[k].Date, option_sheet[k].Type,
                     option_sheet[k].Price, option_sheet[k].Description>>]
                  = Reversed(KeyList(option_data_dict))

\* three option rows, the third under the key of the first: two keys, and
\* the row of the second key is written before the row of the first
C19_Witness ==
    /\ OptionSaved
    /\ Len(instrument_df) = 3
    /\ \A j \in 1..3 : IsOptionRow(j)
    /\ OptionKey(1) = OptionKey(3)
    /\ OptionKey(1) # OptionKey(2)
    /\ Len(option_sheet) = 2
    /\ option_sheet[2].Type = instrument_df[1].TransCode
    /\ option_sheet[1].Type = instrument_df[2].TransCode
    /\ option_sheet[1].Type # option_sheet[2].Type

-----------------------------------------------------------------------------
(* The class-3 legs of the option pass (SpecLedger) *)

SavingOption == pc = "save_option" /\ option_key_done < Len(option_data_dict)

\* the key save_option_result takes next
NextOption == option_data_dict[Len(option_data_dict) - option_key_done]

\* the rows already built for a leg
RowsOfLeg(leg) ==
    {k \in 1..Len(option_data_list) : option_data_list[k].Description = leg}

\* C20: the step that takes the first key of a leg, when its code is of
\* class 3, stores the quantity the balance rule gives (the key's quantity,
\* nothing being held) and marks the leg as awaiting; the step that takes
\* the next key of that leg stores the key's quantity plus the running
\* quantity for BTO and STC and the key's quantity minus the running
\* quantity for BTC and STO, and takes the mark away.
C20_ClassThreeLegs ==
    [][SavingOption =>
           LET leg == NextOption.key[4]
               code == NextOption.key[2]
               quantity == NextOption.value[1]
               running == dict_get(position_data_dict, leg)[1]
               stored == dict_get(position_data_dict', leg)[1]
           IN  /\ (RowsOfLeg(leg) = {} /\ OptionClass(code) = 3) =>
                      /\ leg \in position_data_set'
                      /\ running = 0
                      /\ stored = running + quantity
               /\ (/\ Cardinality(RowsOfLeg(leg)) = 1
                   /\ \A k \in RowsOfLeg(leg) :
                          OptionClass(option_data_list[k].Type) = 3) =>
                      /\ leg \in position_data_set
                      /\ leg \notin position_data_set'
                      /\ code \in {"BTO", "STC"} =>
                             stored = quantity + running
                      /\ code \in {"BTC", "STO"} =>
                             stored = quantity - running]_vars

\* a leg opened by a key of a class-3 code and met again by a BTC or STO
\* key: the mark is gone and the leg holds the second quantity minus the
\* first, where the balance rule would have added the two
C20_Witness ==
    /\ Len(option_data_list) = 2
    /\ option_data_list[1].Description = option_data_list[2].Description
    /\ OptionClass(option_data_list[1].Type) = 3
    /\ OptionClass(option_data_list[2].Type) \notin {1, 3}
    /\ option_data_list[2].Type \in {"BTC", "STO"}
    /\ position_data_set = {}
    /\ LegQuantity(option_data_list[2])
           = option_data_list[2].Quantity - option_data_list[1].Quantity
    /\ LegQuantity(option_data_list[2])
           # option_data_list[2].Quantity + option_data_list[1].Quantity

\* the running quantity of the leg once the key taken next is applied: by
\* the record rule for a leg that awaits, by the balance rule otherwise
AppliedQuantity ==
    LET leg == NextOption.key[4]
        running == dict_get(position_data_dict, leg)[1]
    IN  IF leg \in position_data_set
        THEN calculate_quantity_value_from_record(
                 NextOption.key[2], NextOption.value[1], running)
        ELSE calculate_quantity_value_from_balance(
                 instrument_config_dict, position_data_dict,
                 NextOption.key[2], leg, NextOption.value[1], running)

\* C21: the step that takes an option key appends a row with a Profit
\* exactly when the running quantity of the leg is 0 once the key is
\* applied; the leg then stands at (0, 0), and otherwise holds the applied
\* quantity.
C21_OptionProfitAtZero ==
    [][SavingOption =>
           LET leg == NextOption.key[4]
               row == LastRow(option_data_list')
           IN  /\ Len(option_data_list') = Len(option_data_list) + 1
               /\ row.Description = leg
               /\ row.Profit # NoProfit <=> AppliedQuantity = 0
               /\ AppliedQuantity = 0 =>
                      dict_get(position_data_dict', leg) = <<0, 0>>
               /\ AppliedQuantity # 0 =>
                      dict_get(position_data_dict', leg)[1]
                          = AppliedQuantity]_vars

\* three keys of one leg: the second closed it with a Profit other than 0,
\* the third started again from nothing held and no amount
C21_Witness ==
    /\ Len(option_data_list) = 3
    /\ \A k \in 1..3 :
           option_data_list[k].Description = option_data_list[1].Description
    /\ option_data_list[1].Profit = NoProfit
    /\ option_data_list[2].Profit # NoProfit
    /\ option_data_list[2].Profit # Profit(0)
    /\ option_data_list[3].Profit = NoProfit
    /\ dict_get(position_data_dict, option_data_list[3].Description)
           = <<option_data_list[3].Quantity, option_data_list[3].Amount>>

\* the row before row k, of the same leg, that closed the leg: 0 for none
PreviousClosure(rows, k) ==
    Greatest({i \in 1..(k - 1) :
                 /\ rows[i].Description = rows[k].Description
                 /\ rows[i].Profit # NoProfit} \cup {0})

\* the Amount cells of the rows of the leg of row k, from the one after its
\* previous closure up to row k, added up
AmountSinceClosure(rows, k) ==
    SeqSum([i \in 1..k |->
               IF /\ rows[i].Description = rows[k].Description
                  /\ i > PreviousClosure(rows, k)
               THEN rows[i].Amount ELSE 0])

\* C23: when the OPTION row appended last carries a Profit, the Profit is
\* the sum of the Amount cells of the rows of its leg since the closing row
\* of that leg before it, or since the start of the pass, whether or not
\* one of them was applied by the record rule; every row is the last one
\* appended in some state of the pass.
C23_OptionProfitIsAmountSum ==
    (/\ option_data_list # <<>>
     /\ LastRow(option_data_list).Profit # NoProfit) =>
        LastRow(option_data_list).Profit
            = Profit(AmountSinceClosure(option_data_list,
                                        Len(option_data_list)))

\* a leg opened by a key of a class-3 code and closed, by the record rule,
\* by a key that carries an amount: the Profit is that amount
C23_Witness ==
    /\ Len(option_data_list) = 2
    /\ option_data_list[1].Description = option_data_list[2].Description
    /\ OptionClass(option_data_list[1].Type) = 3
    /\ option_data_list[1].Profit = NoProfit
    /\ option_data_list[2].Amount # 0
    /\ option_data_list[2].Profit = Profit(option_data_list[2].Amount)

-----------------------------------------------------------------------------
(* One instrument's sheets as a function of its own rows (SpecConvertor) *)

\* get_stock_and_option_dict over the first n rows of a group, from dicts
\* and a counter created empty
RECURSIVE get_stock_and_option_dict(_, _, _, _)
get_stock_and_option_dict(config, df, ticker, n) ==
    IF n = 0
    THEN [stock_data_dict |-> <<>>, option_data_dict |-> <<>>,
          day_trade_dict |-> <<>>, undefined_logged |-> 0]
    ELSE LET got == get_stock_and_option_dict(config, df, ticker, n - 1)
         IN  get_stock_and_option_row(
                 config, ticker, df[n], got.stock_data_dict,
                 got.option_data_dict, got.day_trade_dict,
                 got.undefined_logged)

\* save_stock_result over the first k keys of reversed(data_dict.items())
RECURSIVE save_stock_result(_, _, _)
save_stock_result(config, data_dict, k) ==
    IF k = 0
    THEN [rows |-> <<>>, quantity_sum |-> 0, amount_sum |-> 0]
    ELSE LET got == save_stock_result(config, data_dict, k - 1)
             step == save_stock_entry(
                         config, data_dict[Len(data_dict) - k + 1],
                         got.quantity_sum, got.amount_sum)
         IN  [rows |-> Append(got.rows, step.row),
              quantity_sum |-> step.quantity_sum,
              amount_sum |-> step.amount_sum]

\* save_option_result over the first k keys of reversed(data_dict.items())
RECURSIVE save_option_result(_, _, _)
save_option_result(config, data_dict, k) ==
    IF k = 0
    THEN [rows |-> <<>>, position_dict |-> <<>>, position_set |-> {}]
    ELSE LET got == save_option_result(config, data_dict, k - 1)
             step == save_option_entry(
                         config, data_dict[Len(data_dict) - k + 1],
                         got.position_dict, got.position_set)
         IN  [rows |-> Append(got.rows, step.row),
              position_dict |-> step.position_dict,
              position_set |-> step.position_set]

\* the rows of the instrument in hand, wherever they stand in the input
OwnRows == groupby_rows(convertor_input_df, instrument_value)

\* the rows of the other instruments
OtherRows ==
    {j \in 1..Len(convertor_input_df) :
        convertor_input_df[j].Instrument # instrument_value}

\* C22: the STOCK and OPTION rows written for an instrument are those a
\* pass over its own rows alone gives, from dicts, counter, sums and
\* awaiting set created empty, under the config; no row of another
\* instrument enters them, whatever the input holds besides and in
\* whatever order.
C22_InstrumentIndependence ==
    OptionSaved =>
        LET got == get_stock_and_option_dict(
                       instrument_config_dict, OwnRows, instrument_value,
                       Len(OwnRows))
        IN  /\ stock_sheet
                   = save_stock_result(
                         instrument_config_dict, got.stock_data_dict,
                         Len(got.stock_data_dict)).rows
            /\ option_sheet
                   = save_option_result(
                         instrument_config_dict, got.option_data_dict,
                         Len(got.option_data_dict)).rows

\* the second instrument is written after a first one whose rows stand
\* around its own in the input and hold a stock row of the same date, code
\* and price
C22_Witness ==
    /\ OptionSaved
    /\ groups_done = 2
    /\ Len(convertor_input_df) = 3
    /\ OtherRows = {1, 3}
    /\ Len(stock_sheet) = 1
    /\ convertor_input_df[1].row = convertor_input_df[2].row

-----------------------------------------------------------------------------
(* Properties of the accounting parser (SpecParser) *)

Parsed == pc = "parsed"

Stripped == {"$", ",", "(", ")"}

\* C13: a null or empty cell gives 0.0; any other string gives what float
\* makes of the string with every "$", ",", "(" and ")" left out, so a
\* string without a minus sign never gives a negative value, parentheses or
\* not: "($12.00)" gives 12.00 and "$1,234.56" gives 1234.56.
C13_StripsAndNeverNegates ==
    Parsed =>
        /\ (string_value.null \/ string_value.text = <<>>) =>
               float_value = Float(0, 0)
        /\ (~string_value.null /\ string_value.text # <<>>) =>
               float_value
                   = float(SelectSeq(string_value.text,
                                     LAMBDA c : c \notin Stripped))
        /\ (/\ float_value.state = "returned"
            /\ \A j \in 1..Len(string_value.text) :
                   string_value.text[j] # "-") =>
               float_value.mantissa >= 0
        /\ string_value = Cell(ParenthesizedAmount) =>
               float_value = Float(12, 0)
        /\ string_value = Cell(ThousandsAmount) =>
               float_value = Float(123456, 2)

\* the parser returned a value above zero for an amount in parentheses
C13_Witness ==
    /\ Parsed
    /\ string_value = Cell(ParenthesizedAmount)
    /\ float_value.state = "returned"
    /\ float_value.mantissa > 0

-----------------------------------------------------------------------------
(* Properties of a run with missing input files (SpecMissing) *)

PartMisses(p) ==
    \E k \in 1..Len(csv_config[p]) : csv_config[p][k] \in missing_files

MissingParts == {p \in 1..Len(csv_config) : PartMisses(p)}

\* C14: when a configured file cannot be read the run never gets past the
\* first part that names one: it processes the parts before it, exits with
\* status 1 in that part, and does not reach the end of the loop.
C14_MissingFileExits ==
    MissingParts # {} =>
        /\ \A p \in MissingParts : part_done < p
        /\ pc \in {"main", "exit_1"}
        /\ pc = "exit_1" => PartMisses(part_done + 1)

\* the run wrote a first part, then exited on a second part whose first
\* file is there and whose second is missing
C14_Witness ==
    /\ pc = "exit_1"
    /\ part_done = 1
    /\ output_csv.exists
    /\ output_csv.rows # <<>>
    /\ Len(csv_config) = 2
    /\ Len(csv_config[2]) = 2
    /\ csv_config[2][1] \notin missing_files
    /\ csv_config[2][2] \in missing_files

====
